---- MODULE Spec2Model ----
(***************************************************************************)
(* GeminiService (backend/services/gemini_service.py): the conversation    *)
(* client that forwards a patient's turn to a remote text-generation model *)
(* and normalises the reply, and the summary operation.                    *)
(*                                                                         *)
(* Python strings are TLA+ strings; TLC evaluates Len, Head, Tail, SubSeq  *)
(* and \o on them character by character.                                  *)
(***************************************************************************)
EXTENDS Integers, Sequences, FiniteSets, TLC

VARIABLES
    conversation_history,  \* self.conversation_history: list of {role, content}
    chat_session,          \* self.chat_session: "None" or "session"
    last_op,               \* the last operation: its arguments and what the
                           \* collaborators it consulted answered
    outcome,               \* how the last operation ended: a return value or a raise
    remote_calls,          \* remote generation calls issued by the last operation
    completed              \* log of the get_response calls that returned without error

vars == <<conversation_history, chat_session, last_op, outcome, remote_calls, completed>>

(***************************************************************************)
(* Bounds of the exploration.                                              *)
(***************************************************************************)
MaxTurns == 1        \* turns recorded in the history, all replies (Spec)
MaxLongTurns == 3    \* turns recorded in the history, plain replies (SpecConversation)

(***************************************************************************)
(* Python string primitives used by the service.                           *)
(***************************************************************************)
None == "None"

\* str.strip() with no argument removes leading and trailing whitespace.
IsSpace(c) == c \in {" ", "\n", "\t", "\r"}

RECURSIVE lstrip(_)
lstrip(s) ==
    IF Len(s) = 0 THEN s
    ELSE IF IsSpace(Head(s)) THEN lstrip(Tail(s)) ELSE s

RECURSIVE rstrip(_)
rstrip(s) ==
    IF Len(s) = 0 THEN s
    ELSE IF IsSpace(SubSeq(s, Len(s), Len(s)))
         THEN rstrip(SubSeq(s, 1, Len(s) - 1))
         ELSE s

strip(s) == rstrip(lstrip(s))

\* sub in s
contains(sub, s) ==
    \E i \in 1..(Len(s) - Len(sub) + 1) : SubSeq(s, i, i + Len(sub) - 1) = sub

\* s.startswith(prefix)
startswith(s, prefix) ==
    Len(prefix) <= Len(s) /\ SubSeq(s, 1, Len(prefix)) = prefix

\* s.find(sub) + 1 for a non-empty sub: the leftmost occurrence, 0 if none
find(s, sub) ==
    LET hits == {i \in 1..(Len(s) - Len(sub) + 1) : SubSeq(s, i, i + Len(sub) - 1) = sub}
    IN  IF hits = {} THEN 0 ELSE CHOOSE i \in hits : \A j \in hits : i <= j

\* s.replace(old, new), old non-empty: one left-to-right pass over
\* non-overlapping occurrences; the result is not scanned again.
RECURSIVE replace(_, _, _)
replace(s, old, new) ==
    IF find(s, old) = 0 THEN s
    ELSE SubSeq(s, 1, find(s, old) - 1) \o new
         \o replace(SubSeq(s, find(s, old) + Len(old), Len(s)), old, new)

(***************************************************************************)
(* Results of a Python call: a returned value or a raised exception.       *)
(***************************************************************************)
Return(v) == [kind |-> "return", value |-> v]
Raise(t, m) == [kind |-> "raise", exc |-> [type |-> t, str |-> m]]

\* except Exception: every exception the collaborators raise derives from it.
IndexOrAttributeError == {"IndexError", "AttributeError"}
ExceptionTypes == {"IndexError", "AttributeError", "ValueError", "RuntimeError", "TypeError"}

(***************************************************************************)
(* Literals of get_response.                                               *)
(***************************************************************************)
END_CONSULTATION == "[END_CONSULTATION]"

fallback_responses ==
    << "I understand. Can you tell me more about that?",
       "I see. What else have you been experiencing?",
       "Tell me more about how you've been feeling.",
       "I see. Could you tell me more about your symptoms?" >>

FallbackWithHistory == "I see. Could you tell me more about your symptoms?"
FallbackGreeting == "Hello! I'm here to help. What brings you in today?"

FollowupHistoryLimit == 6     \* len(self.conversation_history) < 6
ReminderMinExchanges == 2     \* exchange_count >= 2
MismatchConfidencePct == 50   \* confidence > 0.5, in hundredths

(***************************************************************************)
(* Inputs the exploration draws from.                                      *)
(***************************************************************************)
Messages == {"I have a headache", "Is it bad?"}
Emotions == {"neutral"}
AgeCategories == {"Teenager"}

\* Python values whose type the code inspects: None, a str, a dict.
PyNone == [py |-> "None"]
PyStr(v) == [py |-> "str", v |-> v]
PyDict(d) == [py |-> "dict", d |-> d]

\* emotion_context: None, or the analyzer's record (confidence in hundredths)
EmotionContexts ==
    { PyNone,
      PyDict([mismatch_detected |-> TRUE, confidence |-> 90,
              mismatch_type |-> "positive_words_negative_face"]) }

\* response.text of a reply the remote model produced
RawReplies ==
    { "",
      "How long has this lasted?",
      "Drink water. [END_CONSULTATION]",
      " [END_CONSULTATION]\n",
      "Bye [END_CONSULTATION] now. [END_CONSULTATION]",
      "[END_[END_CONSULTATION]CONSULTATION]" }

\* A response object: reading .text returns a string or raises; reading
\* .candidates (done when logging a blocked reply) returns or raises.
Responses ==
    [text : {Return(r) : r \in RawReplies}, candidates : {"ok"}]
    \cup [text : {Raise(t, "blocked") : t \in {"IndexError", "ValueError"}},
          candidates : {"ok"}]
    \cup [text : {Raise("AttributeError", "no text")}, candidates : {"raise"}]

\* self.model.start_chat(...) and chat_session.send_message(...)
StartChatOutcomes == {Return("session"), Raise("RuntimeError", "start_chat failed")}
SendOutcomes == {Return(r) : r \in Responses} \cup {Raise("RuntimeError", "send_message failed")}

(***************************************************************************)
(* _get_age_guidance, _build_contextual_message                            *)
(***************************************************************************)
age_guidance_map ==
    [ Child |-> "CRITICAL: Age-specific diagnosis required. Common causes at this age: viral infections, growing pains, minor injuries from play. Avoid adult medications. Use simple language and consider parental involvement.",
      Teenager |-> "CRITICAL: Age-specific diagnosis required. Most likely causes: poor posture from desk/phone use, sports injuries, stress/anxiety from school, hormonal changes, irregular sleep patterns, inadequate nutrition. Think about academic pressure and growth spurts.",
      Senior |-> "CRITICAL: Age-specific diagnosis required. Most likely causes: arthritis, age-related degeneration, medication side effects, reduced mobility, chronic conditions. Ask about current medications and existing conditions. Consider fall risks and mobility limitations.",
      Elderly |-> "CRITICAL: Age-specific diagnosis required. Most likely causes: multiple chronic conditions, medication interactions, reduced healing capacity, balance issues, cognitive factors. Be extra thorough about medication review and consider caregiver involvement." ]
    @@ ("Young Adult" :> "CRITICAL: Age-specific diagnosis required. Most likely causes: work-related stress, poor ergonomics (desk job), irregular sleep, inadequate exercise, poor diet, dehydration, lifestyle factors (alcohol, caffeine). Consider career stress and lifestyle habits first.")
    @@ ("Middle-Aged" :> "CRITICAL: Age-specific diagnosis required. Most likely causes: chronic stress, sedentary lifestyle, weight-related issues, early signs of age-related conditions (hypertension, diabetes), work-life balance issues. Consider family history and preventive screening needs.")

\* dict.get(key, default)
get(d, key, default) == IF key \in DOMAIN d THEN d[key] ELSE default

get_age_guidance(age_category) == get(age_guidance_map, age_category, "")

RECURSIVE join(_, _)
join(sep, parts) ==
    IF Len(parts) = 0 THEN ""
    ELSE IF Len(parts) = 1 THEN parts[1]
    ELSE parts[1] \o sep \o join(sep, Tail(parts))

\* Variant: every entry of the history is counted, whatever its role.
exchange_count_all(history) == Len(history)

\* len([msg for msg in self.conversation_history if msg["role"] == "user"])
exchange_count(history) ==
    Cardinality({i \in 1..Len(history) : history[i].role = "user"})

\* bool(x) of an optional argument
Truthy(x) ==
    CASE x.py = "None" -> FALSE
      [] x.py = "str"  -> Len(x.v) > 0
      [] x.py = "dict" -> DOMAIN x.d # {}

age_parts(age_category) ==
    IF age_category # None /\ Len(age_category) > 0 /\ Len(get_age_guidance(age_category)) > 0
    THEN << "\n[PATIENT AGE: " \o age_category \o "]",
            "[" \o get_age_guidance(age_category) \o "]" >>
    ELSE << >>

stage_parts(history) ==
    IF exchange_count(history) >= ReminderMinExchanges
    THEN << "[This is exchange #" \o ToString(exchange_count(history) + 1)
            \o ". You should provide assessment and advice now, not just more questions.]" >>
    ELSE << >>

mismatch_parts(emotion, ctx) ==
    IF get(ctx, "mismatch_detected", FALSE) /\ get(ctx, "confidence", 0) > MismatchConfidencePct
    THEN CASE get(ctx, "mismatch_type", "") = "positive_words_negative_face" ->
                << "[Note: Patient expressing positivity but appears " \o emotion
                   \o ". May want to check emotional wellbeing if appropriate.]" >>
           [] get(ctx, "mismatch_type", "") = "negative_words_positive_face" ->
                << "[Note: Patient expressing concerns but appears " \o emotion
                   \o ". Likely manageable issue.]" >>
           [] OTHER -> << >>
    ELSE << >>

build_contextual_message(history, message, emotion, age_category, emotion_context) ==
    LET head == << "Patient says: \"" \o message \o "\"" >>
                \o age_parts(age_category)
                \o << "[Facial expression: " \o emotion \o "]" >>
                \o stage_parts(history)
    IN  IF ~Truthy(emotion_context) THEN Return(join("\n", head))
        ELSE IF emotion_context.py # "dict"
             THEN Raise("AttributeError", "'str' object has no attribute 'get'")
             ELSE Return(join("\n", head \o mismatch_parts(emotion, emotion_context.d)))

(***************************************************************************)
(* get_response                                                            *)
(***************************************************************************)
\* Variant: the entry is inserted at the front of the list.
add_to_history_front(history, role, content) ==
    << [role |-> role, content |-> content] >> \o history

\* Variant: the assistant entry is never recorded.
add_to_history_user_only(history, role, content) ==
    IF role = "user" THEN Append(history, [role |-> role, content |-> content]) ELSE history

\* self._add_to_history(role, content)
add_to_history(history, role, content) ==
    Append(history, [role |-> role, content |-> content])

\* The inner try: response.text.strip(), or on IndexError/AttributeError the
\* blocked-reply branch, which logs response.candidates and draws
\* random.choice(fallback_responses).  Any other exception leaves the try.
read_response_text(response, choice) ==
    IF response.text.kind = "return" THEN Return(strip(response.text.value))
    ELSE IF response.text.exc.type \in IndexOrAttributeError
         THEN IF response.candidates = "raise"
              THEN Raise("AttributeError", "no candidates")
              ELSE Return(fallback_responses[choice])
         ELSE response.text

\* should_end = "[END_CONSULTATION]" in response_text
should_end_of(response_text) == contains(END_CONSULTATION, response_text)

\* clean_response = response_text.replace("[END_CONSULTATION]", "").strip()
clean_response_of(response_text) == strip(replace(response_text, END_CONSULTATION, ""))

\* Variant: the comparison is <= 6.
followup_needed_le(clean_response, history) ==
    contains("?", clean_response) \/ Len(history) <= FollowupHistoryLimit

\* followup_needed = "?" in clean_response or len(self.conversation_history) < 6
followup_needed_of(clean_response, history) ==
    contains("?", clean_response) \/ Len(history) < FollowupHistoryLimit

\* Variant: the history records the reply before the marker is removed.
finish_turn_raw(history, message, response_text) ==
    LET clean_response == clean_response_of(response_text)
        history2 == add_to_history(add_to_history(history, "user", message),
                                   "assistant", response_text)
    IN  [ result  |-> Return([ text |-> clean_response,
                               followup_needed |-> followup_needed_of(clean_response, history2),
                               should_end_consultation |-> should_end_of(response_text) ]),
          history |-> history2 ]

\* The statements of the try block after the reply text is known.
finish_turn(history, message, response_text) ==
    LET clean_response == clean_response_of(response_text)
        history2 == add_to_history(add_to_history(history, "user", message),
                                   "assistant", clean_response)
    IN  [ result  |-> Return([ text |-> clean_response,
                               followup_needed |-> followup_needed_of(clean_response, history2),
                               should_end_consultation |-> should_end_of(response_text) ]),
          history |-> history2 ]

\* Variant: the test on the history is inverted.
exception_result_inverted(history, e) ==
    [ text |-> IF Len(history) > 0 THEN FallbackGreeting ELSE FallbackWithHistory,
      followup_needed |-> TRUE,
      error |-> e.str ]

\* The except Exception block.
exception_result(history, e) ==
    [ text |-> IF Len(history) > 0 THEN FallbackWithHistory ELSE FallbackGreeting,
      followup_needed |-> TRUE,
      error |-> e.str ]

\* Variant: except (IndexError, AttributeError) as e
caught_by_handler_narrow(e) == e.type \in IndexOrAttributeError

\* except Exception as e
caught_by_handler(e) == e.type \in ExceptionTypes

\* One send_message call as it appears to the remote side.
SendCall(sent, send) == [call |-> "send_message", sent |-> sent, ended |-> send.kind]

\* The try block: a record of what it left behind and how it ended.
get_response_try(history, session, message, emotion, age_category, emotion_context, start, send, choice) ==
    LET session2 == IF session = None /\ start.kind = "return" THEN start.value ELSE session
        contextual_message ==
            build_contextual_message(history, message, emotion, age_category, emotion_context)
    IN  IF session = None /\ start.kind = "raise"
        THEN [result |-> start, history |-> history, session |-> session, calls |-> << >>]
        ELSE IF contextual_message.kind = "raise"
        THEN [result |-> contextual_message, history |-> history, session |-> session2,
              calls |-> << >>]
        ELSE IF send.kind = "raise"
        THEN [result |-> send, history |-> history, session |-> session2,
              calls |-> << SendCall(contextual_message.value, send) >>]
        ELSE LET response_text == read_response_text(send.value, choice)
             IN  IF response_text.kind = "raise"
                 THEN [result |-> response_text, history |-> history, session |-> session2,
                       calls |-> << SendCall(contextual_message.value, send) >>]
                 ELSE LET done == finish_turn(history, message, response_text.value)
                      IN  [result |-> done.result, history |-> done.history,
                           session |-> session2,
                           calls |-> << SendCall(contextual_message.value, send) >>]

\* try ... except Exception
get_response(history, session, message, emotion, age_category, emotion_context, start, send, choice) ==
    LET t == get_response_try(history, session, message, emotion, age_category,
                              emotion_context, start, send, choice)
    IN  IF t.result.kind = "raise" /\ caught_by_handler(t.result.exc)
        THEN [t EXCEPT !.result = Return(exception_result(t.history, t.result.exc))]
        ELSE t

(***************************************************************************)
(* generate_summary                                                        *)
(***************************************************************************)
OverviewBlocked == "Patient presented with health concerns that were assessed during this consultation. Clinical evaluation and recommendations were provided based on reported symptoms."

RecommendationsBlocked ==
    << "Follow the treatment plan discussed during your consultation",
       "Monitor your symptoms closely and note any changes in severity or new symptoms",
       "Maintain adequate hydration, rest, and nutrition to support recovery",
       "Contact for follow-up if symptoms worsen or don't improve within the expected timeframe" >>

OverviewUnavailable == "Clinical summary unavailable. Please refer to the consultation transcript for complete details of the assessment and treatment plan provided."

RecommendationsUnavailable ==
    << "Follow the treatment plan and recommendations discussed during your consultation",
       "Monitor your symptoms and track any changes or new developments",
       "Maintain proper rest, hydration, and nutrition to support recovery",
       "Seek immediate care if you experience severe or worsening symptoms" >>

MinLineLen == 3     \* len(line) > 3

\* U+2022 and U+25CF cannot be written in a TLA+ string; "@" and "~" stand
\* for them, here and in the raw outputs below.
Prefixes == << "1.", "2.", "3.", "4.", "5.", "-", "@", "~" >>

\* s.split(sep) for a one-character sep
RECURSIVE split(_, _)
split(s, sep) ==
    IF \A i \in 1..Len(s) : SubSeq(s, i, i) # sep THEN << s >>
    ELSE LET k == CHOOSE i \in 1..Len(s) :
                    SubSeq(s, i, i) = sep /\ \A j \in 1..(i - 1) : SubSeq(s, j, j) # sep
         IN  << SubSeq(s, 1, k - 1) >> \o split(SubSeq(s, k + 1, Len(s)), sep)

\* line.replace('**', '').replace('*', '').replace('##', '').replace('#', '')
strip_markdown(line) ==
    replace(replace(replace(replace(line, "**", ""), "*", ""), "##", ""), "#", "")

\* for prefix in [...]: if line.startswith(prefix): line = line[len(prefix):].strip()
RECURSIVE strip_prefixes(_, _)
strip_prefixes(line, k) ==
    IF k > Len(Prefixes) THEN line
    ELSE IF startswith(line, Prefixes[k])
         THEN strip_prefixes(strip(SubSeq(line, Len(Prefixes[k]) + 1, Len(line))), k + 1)
         ELSE strip_prefixes(line, k + 1)

\* The body of the loop over recommendations_text.split('\n')
RECURSIVE parse_lines(_)
parse_lines(lines) ==
    IF Len(lines) = 0 THEN << >>
    ELSE LET line == strip_markdown(strip(Head(lines)))
             kept == IF Len(line) > MinLineLen
                     THEN LET l2 == strip_prefixes(line, 1)
                          IN  IF Len(l2) > 0 THEN << l2 >> ELSE << >>
                     ELSE << >>
         IN  kept \o parse_lines(Tail(lines))

parse_recommendations(recommendations_text) == parse_lines(split(recommendations_text, "\n"))

\* The loop that formats the transcript.  An entry is a dict or another
\* object; an object without .role (here: a str) raises AttributeError.
RECURSIVE format_lines(_)
format_lines(conversation) ==
    IF Len(conversation) = 0 THEN Return(<< >>)
    ELSE LET msg == Head(conversation)
             rest == format_lines(Tail(conversation))
         IN  IF msg.py # "dict" THEN Raise("AttributeError", "'str' object has no attribute 'role'")
             ELSE IF rest.kind = "raise" THEN rest
             ELSE Return(<< (IF get(msg.d, "role", None) = "user" THEN "Patient" ELSE "Doctor")
                            \o ": " \o get(msg.d, "content", None) >> \o rest.value)

format_conversation(conversation) ==
    LET lines == format_lines(conversation)
    IN  IF lines.kind = "raise" THEN lines ELSE Return(join("\n", lines.value))

\* One generate_content call as it appears to the remote side.
GenerateCall(prompt, transcript, gen) ==
    [call |-> "generate_content", prompt |-> prompt, transcript |-> transcript,
     ended |-> gen.kind]

\* Variant: no inner handler, a blocked overview leaves the try block.
read_overview_unguarded(response) ==
    IF response.text.kind = "return" THEN Return(strip(response.text.value))
    ELSE response.text

\* try: overview = overview_response.text.strip() except (IndexError, AttributeError)
read_overview(response) ==
    IF response.text.kind = "return" THEN Return(strip(response.text.value))
    ELSE IF response.text.exc.type \in IndexOrAttributeError
         THEN IF response.candidates = "raise"
              THEN Raise("AttributeError", "no candidates")
              ELSE Return(OverviewBlocked)
         ELSE response.text

\* try: recommendations_text = ...; parse  except (IndexError, AttributeError)
read_recommendations(response) ==
    IF response.text.kind = "return"
    THEN Return(parse_recommendations(strip(response.text.value)))
    ELSE IF response.text.exc.type \in IndexOrAttributeError
         THEN IF response.candidates = "raise"
              THEN Raise("AttributeError", "no candidates")
              ELSE Return(RecommendationsBlocked)
         ELSE response.text

\* The except Exception block of generate_summary.
summary_unavailable ==
    [overview |-> OverviewUnavailable, recommendations |-> RecommendationsUnavailable]

\* The try block: how it ended and the calls it issued, in order.
generate_summary_try(conversation, overview_gen, recommendations_gen) ==
    LET formatted == format_conversation(conversation)
    IN  IF formatted.kind = "raise" THEN [result |-> formatted, calls |-> << >>]
        ELSE LET call1 == GenerateCall("overview", formatted.value, overview_gen)
                 call2 == GenerateCall("recommendations", formatted.value, recommendations_gen)
             IN  IF overview_gen.kind = "raise"
                 THEN [result |-> overview_gen, calls |-> << call1 >>]
                 ELSE IF recommendations_gen.kind = "raise"
                 THEN [result |-> recommendations_gen, calls |-> << call1, call2 >>]
                 ELSE LET overview == read_overview(overview_gen.value)
                          recommendations == read_recommendations(recommendations_gen.value)
                      IN  IF overview.kind = "raise"
                          THEN [result |-> overview, calls |-> << call1, call2 >>]
                          ELSE IF recommendations.kind = "raise"
                          THEN [result |-> recommendations, calls |-> << call1, call2 >>]
                          ELSE [result |-> Return([overview |-> overview.value,
                                                   recommendations |-> recommendations.value]),
                                calls |-> << call1, call2 >>]

\* Variant: a failed attempt is made once more before giving up.
generate_summary_retry(conversation, overview_gen, recommendations_gen) ==
    LET t == generate_summary_try(conversation, overview_gen, recommendations_gen)
    IN  IF t.result.kind = "raise" /\ caught_by_handler(t.result.exc)
        THEN [result |-> Return(summary_unavailable), calls |-> t.calls \o t.calls]
        ELSE t

\* try ... except Exception
generate_summary(conversation, overview_gen, recommendations_gen) ==
    LET t == generate_summary_try(conversation, overview_gen, recommendations_gen)
    IN  IF t.result.kind = "raise" /\ caught_by_handler(t.result.exc)
        THEN [t EXCEPT !.result = Return(summary_unavailable)]
        ELSE t

\* Inputs of generate_summary: the transcript the caller passes and what the
\* two generate_content calls produce.
AsDicts(history) == [i \in 1..Len(history) |-> PyDict(history[i])]

Transcripts(history) ==
    { AsDicts(history), Append(AsDicts(history), PyStr("not-a-message")) }

RawOverviews == { " The patient reports a tension headache. \n" }

RawRecommendations ==
    { "1. Take 400mg ibuprofen every 6 hours\n2. **Rest** in a dark room\n\n- ok\n@ Monitor for fever",
      "- 1. Drink water\n3. ab\n## Follow up if symptoms worsen" }

OverviewOutcomes ==
    {Return([text |-> Return(r), candidates |-> "ok"]) : r \in RawOverviews}
    \cup {Return([text |-> Raise(t, "blocked"), candidates |-> "ok"]) : t \in {"IndexError", "ValueError"}}
    \cup {Raise("RuntimeError", "generate_content failed")}

RecommendationsOutcomes ==
    {Return([text |-> Return(r), candidates |-> "ok"]) : r \in RawRecommendations}
    \cup {Return([text |-> Raise("AttributeError", "blocked"), candidates |-> "ok"])}
    \cup {Raise("RuntimeError", "generate_content failed")}

(***************************************************************************)
(* The state machine.                                                      *)
(***************************************************************************)
Init ==
    /\ conversation_history = << >>
    /\ chat_session = None
    /\ last_op = [op |-> "none"]
    /\ outcome = Return(None)
    /\ remote_calls = << >>
    /\ completed = << >>

\* One get_response call against an environment that answers from `sends`.
\* start_chat is consulted only while there is no session, and random.choice
\* only on the blocked-reply branch.
GetResponseOver(sends, maxTurns) ==
    \E message \in Messages, emotion \in Emotions, age_category \in AgeCategories,
       emotion_context \in EmotionContexts,
       start \in IF chat_session = None THEN StartChatOutcomes ELSE {Return(chat_session)},
       send \in sends :
    \E choice \in IF send.kind = "return" /\ send.value.text.kind = "raise"
                  THEN 1..Len(fallback_responses) ELSE {1} :
        \E r \in {get_response(conversation_history, chat_session, message, emotion,
                              age_category, emotion_context, start, send, choice)} :
            /\ Len(r.history) <= 2 * maxTurns
            /\ conversation_history' = r.history
            /\ chat_session' = r.session
            /\ outcome' = r.result
            /\ remote_calls' = r.calls
            /\ last_op' =
                 LET start_raises == chat_session = None /\ start.kind = "raise"
                 IN  [ op |-> "get_response", message |-> message,
                       emotion_context |-> emotion_context,
                       start |-> IF chat_session = None THEN start.kind ELSE "unused",
                       send |-> IF start_raises \/ emotion_context.py = "str"
                                THEN Return(None) ELSE send ]
            /\ completed' =
                 IF r.result.kind = "return" /\ "error" \notin DOMAIN r.result.value
                 THEN Append(completed, [message |-> message, text |-> r.result.value.text])
                 ELSE completed

GetResponse == GetResponseOver(SendOutcomes, MaxTurns)

GenerateSummary ==
    \E conversation \in Transcripts(conversation_history),
       overview_gen \in OverviewOutcomes, recommendations_gen \in RecommendationsOutcomes :
        \E r \in {generate_summary(conversation, overview_gen, recommendations_gen)} :
            /\ outcome' = r.result
            /\ remote_calls' = r.calls
            /\ last_op' =
                 LET malformed == \E i \in 1..Len(conversation) : conversation[i].py # "dict"
                 IN  [ op |-> "generate_summary", malformed |-> malformed,
                       overview_gen |-> IF malformed THEN Return(None) ELSE overview_gen,
                       recommendations_gen |->
                           IF malformed \/ overview_gen.kind = "raise"
                           THEN Return(None) ELSE recommendations_gen ]
            /\ UNCHANGED <<conversation_history, chat_session, completed>>

Next == GetResponse \/ GenerateSummary

\* Longer conversations: the remote side answers with plain text or raises.
PlainReplies == { "How long has this lasted?", "Drink water. [END_CONSULTATION]" }

PlainSendOutcomes ==
    {Return([text |-> Return(r), candidates |-> "ok"]) : r \in PlainReplies}
    \cup {Raise("RuntimeError", "send_message failed")}

GetResponsePlain == GetResponseOver(PlainSendOutcomes, MaxLongTurns)

NextConversation == GetResponsePlain \/ GenerateSummary

Spec == Init /\ [][Next]_vars

SpecConversation == Init /\ [][NextConversation]_vars

(***************************************************************************)
(* Properties of get_response.                                             *)
(***************************************************************************)
IsGetResponse == last_op.op = "get_response"
Returned == outcome.kind = "return"
OnExceptionPath == Returned /\ "error" \in DOMAIN outcome.value

\* What the call met, read off its arguments and the collaborators' answers.
StartRaised == last_op.start = "raise"
BuildRaised == ~StartRaised /\ last_op.emotion_context.py = "str"
SendIssued == ~StartRaised /\ ~BuildRaised
SendRaised == SendIssued /\ last_op.send.kind = "raise"
TextUnreadable == SendIssued /\ last_op.send.kind = "return"
                  /\ last_op.send.value.text.kind = "raise"
\* the reply's text raised IndexError or AttributeError and its candidates could be logged
BlockedReply == TextUnreadable
                /\ last_op.send.value.text.exc.type \in {"IndexError", "AttributeError"}
                /\ last_op.send.value.candidates = "ok"
RemoteFailed == StartRaised \/ SendRaised \/ TextUnreadable
RawReplyRead == SendIssued /\ last_op.send.kind = "return"
                /\ last_op.send.value.text.kind = "return"
RawReply == last_op.send.value.text.value

HasChar(c, s) == \E i \in 1..Len(s) : SubSeq(s, i, i) = c
HasMarker(s) == \E i \in 1..(Len(s) - 17) : SubSeq(s, i, i + 17) = "[END_CONSULTATION]"

BlockedFallbacks == {fallback_responses[i] : i \in 1..Len(fallback_responses)}
ExceptionFallbacks == { "I see. Could you tell me more about your symptoms?",
                        "Hello! I'm here to help. What brings you in today?" }

\* C1 as stated: get_response never raises, and after any failure of the
\* remote side (session creation raising, send_message raising, a reply whose
\* text cannot be read) the result's text is a canned fallback and the result
\* carries an error field.
C1_FallbackWithError ==
    IsGetResponse =>
        /\ Returned
        /\ RemoteFailed =>
             /\ outcome.value.text \in BlockedFallbacks \cup ExceptionFallbacks
             /\ "error" \in DOMAIN outcome.value

\* C1 amended: get_response never raises; after any failure of the remote
\* side the result's text is a canned fallback; the result carries an error
\* field (and one of the two exception fallbacks) unless the failure was a
\* blocked reply whose text raised IndexError or AttributeError and whose
\* candidates could be logged, in which case the text is one of the four
\* blocked-reply fallbacks and there is no error field.
C1_NeverRaises ==
    IsGetResponse =>
        /\ Returned
        /\ RemoteFailed /\ ~BlockedReply =>
             /\ outcome.value.text \in ExceptionFallbacks
             /\ "error" \in DOMAIN outcome.value
        /\ BlockedReply =>
             /\ outcome.value.text \in BlockedFallbacks
             /\ "error" \notin DOMAIN outcome.value

\* A send_message that raised was answered with a fallback and an error, after
\* an earlier turn had been recorded.
C1_Witness ==
    /\ IsGetResponse /\ SendRaised /\ OnExceptionPath
    /\ Len(conversation_history) > 0
    /\ outcome.value.text = "I see. Could you tell me more about your symptoms?"

\* C2: for all inputs and all remote outcomes the text of the result of
\* get_response is a non-empty string.
C2_TextNonEmpty ==
    IsGetResponse /\ Returned => Len(outcome.value.text) > 0

\* C3 as stated: every get_response call, failing ones included, appends
\* exactly two entries: the user message, then the assistant message whose
\* content is the returned text.
AppendsTurn ==
    conversation_history' =
        conversation_history \o
            << [role |-> "user", content |-> last_op'.message],
               [role |-> "assistant", content |-> outcome'.value.text] >>

C3_EveryCallAppends ==
    [][last_op'.op = "get_response" => AppendsTurn]_vars

\* C3 amended: a get_response call that returns without an error field
\* (the blocked-reply fallback included) appends exactly the user message and
\* then the assistant message with the returned text; a call that ends on the
\* exception path appends nothing.
C3_AppendsUnlessException ==
    [][last_op'.op = "get_response" =>
          IF "error" \in DOMAIN outcome'.value
          THEN conversation_history' = conversation_history
          ELSE AppendsTurn]_vars

\* A blocked reply was answered with a fallback, and the turn is in the history.
C3_Witness ==
    /\ IsGetResponse /\ BlockedReply
    /\ conversation_history =
         << [role |-> "user", content |-> last_op.message],
            [role |-> "assistant", content |-> outcome.value.text] >>

\* C4: after any sequence of get_response calls of which N returned without
\* error, the history has length 2N and its entries 2i-1 and 2i are the user
\* message and the returned text of the i-th such call, in call order.
C4_HistoryIsCompletedTurns ==
    /\ Len(conversation_history) = 2 * Len(completed)
    /\ \A i \in 1..Len(completed) :
         /\ conversation_history[2 * i - 1] = [role |-> "user", content |-> completed[i].message]
         /\ conversation_history[2 * i] = [role |-> "assistant", content |-> completed[i].text]

\* Three completed turns with different messages and texts, then a failing call.
C4_Witness ==
    /\ Len(completed) = 3
    /\ completed[1].message # completed[2].message
    /\ completed[2].text # completed[3].text
    /\ IsGetResponse /\ OnExceptionPath

\* C5: followup_needed is true whenever the returned text contains "?", and
\* true whatever the text while the history, counted after the call's two
\* entries, holds fewer than 6 messages: the first two completed calls return
\* true, and from the third on the flag is false exactly when the text has
\* no "?".
C5_FollowupFlag ==
    IsGetResponse /\ Returned =>
        /\ HasChar("?", outcome.value.text) => outcome.value.followup_needed
        /\ Len(conversation_history) < 6 => outcome.value.followup_needed
        /\ ~OnExceptionPath /\ Len(completed) <= 2 => outcome.value.followup_needed
        /\ ~OnExceptionPath /\ Len(completed) >= 3 =>
             (outcome.value.followup_needed <=> HasChar("?", outcome.value.text))

\* The third completed call returned a text without "?" and the flag is false.
C5_Witness ==
    /\ IsGetResponse /\ Returned /\ ~OnExceptionPath
    /\ Len(completed) = 3
    /\ outcome.value.text = "Drink water."
    /\ ~outcome.value.followup_needed

\* C6: whenever the raw reply contains [END_CONSULTATION], however often and
\* also nested inside another occurrence, the result has
\* should_end_consultation = true and its text does not contain the marker.
C6_MarkerStripped ==
    IsGetResponse /\ RawReplyRead /\ HasMarker(RawReply) =>
        /\ Returned
        /\ "should_end_consultation" \in DOMAIN outcome.value
        /\ outcome.value.should_end_consultation
        /\ ~HasMarker(outcome.value.text)

\* C7: every result of get_response, on the success, blocked-reply and
\* exception paths alike, contains followup_needed and should_end_consultation.
C7_BothBooleans ==
    IsGetResponse /\ Returned =>
        {"followup_needed", "should_end_consultation"} \subseteq DOMAIN outcome.value

(***************************************************************************)
(* Properties of generate_summary.                                         *)
(***************************************************************************)
IsSummary == last_op.op = "generate_summary"

OverviewCallRaised == ~last_op.malformed /\ last_op.overview_gen.kind = "raise"
RecommendationsCallRaised ==
    ~last_op.malformed /\ ~OverviewCallRaised /\ last_op.recommendations_gen.kind = "raise"
BothReplied == ~last_op.malformed /\ ~OverviewCallRaised /\ ~RecommendationsCallRaised
OverviewText == last_op.overview_gen.value.text
RecommendationsText == last_op.recommendations_gen.value.text
\* a reply whose text raised IndexError or AttributeError
Blocked(text) == text.kind = "raise" /\ text.exc.type \in {"IndexError", "AttributeError"}
\* a reply whose text raised anything else
Unreadable(text) == text.kind = "raise" /\ ~Blocked(text)
\* a reply that takes the call to the outer handler: its text raised
\* something else, or it is blocked and its candidates cannot be logged
Aborts(response) ==
    Unreadable(response.text) \/ (Blocked(response.text) /\ response.candidates = "raise")
SummaryFailed ==
    \/ last_op.malformed \/ OverviewCallRaised \/ RecommendationsCallRaised
    \/ BothReplied /\ (OverviewText.kind = "raise" \/ RecommendationsText.kind = "raise")
\* the failures that reach the outer handler
SummaryAborted ==
    \/ last_op.malformed \/ OverviewCallRaised \/ RecommendationsCallRaised
    \/ BothReplied /\ (Aborts(last_op.overview_gen.value)
                       \/ Aborts(last_op.recommendations_gen.value))

CannedOverviews == {OverviewBlocked, OverviewUnavailable}
CannedRecommendations == {RecommendationsBlocked, RecommendationsUnavailable}

\* What Python computes for the raw outputs of the exploration.
ExpectedOverview ==
    " The patient reports a tension headache. \n" :> "The patient reports a tension headache."

ExpectedRecommendations ==
    ( "1. Take 400mg ibuprofen every 6 hours\n2. **Rest** in a dark room\n\n- ok\n@ Monitor for fever"
        :> << "Take 400mg ibuprofen every 6 hours", "Rest in a dark room", "ok",
              "Monitor for fever" >> )
    @@ ( "- 1. Drink water\n3. ab\n## Follow up if symptoms worsen"
        :> << "1. Drink water", "ab", " Follow up if symptoms worsen" >> )

\* C8 as stated: generate_summary never raises, and on any failure (a
\* generation call raising, either reply blocked, a malformed transcript
\* entry) it returns a canned overview together with a canned list of exactly
\* 4 recommendations, neither depending on the transcript or the model output.
C8_FailureIsAllCanned ==
    IsSummary =>
        /\ Returned
        /\ SummaryFailed =>
             /\ outcome.value.overview \in CannedOverviews
             /\ outcome.value.recommendations \in CannedRecommendations
             /\ Len(outcome.value.recommendations) = 4

\* C8 amended: generate_summary never raises.  When a generation call
\* raises, a reply's text raises something other than IndexError or
\* AttributeError (or a blocked reply cannot be logged), or a transcript entry
\* is malformed, it returns the fixed "unavailable" overview with the fixed
\* 4-item "unavailable" list.  Otherwise
\* each part falls back on its own: a blocked overview reply gives the fixed
\* "blocked" overview, a blocked recommendations reply gives the fixed 4-item
\* "blocked" list, and the other part is still taken from the model output.
C8_SummaryFallbacks ==
    IsSummary =>
        /\ Returned
        /\ SummaryAborted =>
             /\ outcome.value.overview = OverviewUnavailable
             /\ outcome.value.recommendations = RecommendationsUnavailable
             /\ Len(outcome.value.recommendations) = 4
        /\ ~SummaryAborted =>
             /\ outcome.value.overview =
                  IF Blocked(OverviewText) THEN OverviewBlocked
                  ELSE ExpectedOverview[OverviewText.value]
             /\ outcome.value.recommendations =
                  IF Blocked(RecommendationsText) THEN RecommendationsBlocked
                  ELSE ExpectedRecommendations[RecommendationsText.value]
             /\ Blocked(RecommendationsText) => Len(outcome.value.recommendations) = 4

\* The overview reply was blocked and the recommendations came from the model.
C8_Witness ==
    /\ IsSummary /\ BothReplied /\ Blocked(OverviewText)
    /\ RecommendationsText.kind = "return"
    /\ outcome.value.overview = OverviewBlocked
    /\ outcome.value.recommendations = << "1. Drink water", "ab", " Follow up if symptoms worsen" >>

(***************************************************************************)
(* Properties of the history and of the remote calls.                      *)
(***************************************************************************)
IsPrefix(a, b) == Len(a) <= Len(b) /\ SubSeq(b, 1, Len(a)) = a

\* C9: the history is append-only: across any interleaving of get_response
\* and generate_summary calls, succeeding or failing, the history before a
\* step is a prefix of the history after it, and generate_summary leaves the
\* history unchanged.
C9_AppendOnly ==
    [][ /\ IsPrefix(conversation_history, conversation_history')
        /\ last_op'.op = "generate_summary" => conversation_history' = conversation_history
      ]_vars

\* A summary was generated after two recorded turns and a failing call.
C9_Witness ==
    /\ IsSummary
    /\ Len(conversation_history) = 4
    /\ Len(completed) = 2

\* C10 as stated: each get_response call issues exactly one remote
\* generation call and each generate_summary call exactly two, the overview
\* call and then the recommendations call.
C10_ExactCalls ==
    /\ IsGetResponse => Len(remote_calls) = 1
    /\ IsSummary =>
         /\ Len(remote_calls) = 2
         /\ remote_calls[1].prompt = "overview"
         /\ remote_calls[2].prompt = "recommendations"

\* C10 amended: a get_response call issues at most one remote generation
\* call: exactly one, unless creating the session or building the message
\* raises first.  A generate_summary call issues at most two, the overview
\* call first and the recommendations call only after the overview call has
\* returned: none when formatting the transcript raises, only the overview
\* call when that call raises.  No failed call is issued again.
C10_CallsIssued ==
    /\ IsGetResponse =>
         IF StartRaised \/ BuildRaised
         THEN remote_calls = << >>
         ELSE /\ Len(remote_calls) = 1
              /\ remote_calls[1].call = "send_message"
              /\ remote_calls[1].ended = last_op.send.kind
    /\ IsSummary =>
         IF last_op.malformed THEN remote_calls = << >>
         ELSE IF OverviewCallRaised
              THEN /\ Len(remote_calls) = 1
                   /\ remote_calls[1].prompt = "overview"
                   /\ remote_calls[1].ended = "raise"
              ELSE /\ Len(remote_calls) = 2
                   /\ remote_calls[1].prompt = "overview"
                   /\ remote_calls[1].ended = "return"
                   /\ remote_calls[2].prompt = "recommendations"
                   /\ remote_calls[2].ended = last_op.recommendations_gen.kind

\* The overview call raised and the recommendations call was never issued.
C10_Witness ==
    /\ IsSummary /\ OverviewCallRaised
    /\ Len(remote_calls) = 1
    /\ outcome.value.overview = OverviewUnavailable

(***************************************************************************)
(* Properties of the message sent to the remote model.                     *)
(***************************************************************************)
\* get_response calls that had returned without error when this call started
CompletedBefore ==
    IF Returned /\ ~OnExceptionPath THEN Len(completed) - 1 ELSE Len(completed)

SentMessage == remote_calls[1].sent

ReminderFor(n) ==
    "[This is exchange #" \o ToString(n)
    \o ". You should provide assessment and advice now, not just more questions.]"

HasText(sub, s) == \E i \in 1..(Len(s) - Len(sub) + 1) : SubSeq(s, i, i + Len(sub) - 1) = sub

\* C11: the message a get_response call sends contains the exchange-count
\* reminder if and only if at least 2 earlier get_response calls completed
\* without an exception (the history then holds that many user entries); the
\* number shown is that count plus one; calls that ended on the exception
\* path are not counted.
C11_ReminderAfterTwoTurns ==
    IsGetResponse /\ Len(remote_calls) = 1 =>
        /\ HasText("[This is exchange #", SentMessage) <=> CompletedBefore >= 2
        /\ CompletedBefore >= 2 => HasText(ReminderFor(CompletedBefore + 1), SentMessage)
        /\ CompletedBefore =
             Cardinality({i \in 1..(2 * CompletedBefore) : conversation_history[i].role = "user"})

\* After three completed turns a call failed on send_message; its message
\* announced exchange #4.
C11_Witness ==
    /\ IsGetResponse /\ SendRaised /\ OnExceptionPath
    /\ Len(completed) = 3
    /\ HasText("[This is exchange #4.", SentMessage)

(***************************************************************************)
(* Properties of the recommendation parsing.                               *)
(***************************************************************************)
RecommendationsParsed ==
    IsSummary /\ ~SummaryAborted /\ RecommendationsText.kind = "return"

\* '1.' .. '5.', '-', and "@", "~" for the two bullet characters
EnumerationPrefixes == {"1.", "2.", "3.", "4.", "5.", "-", "@", "~"}

BeginsWith(s, prefix) == Len(prefix) <= Len(s) /\ SubSeq(s, 1, Len(prefix)) = prefix

\* C12: the recommendations generate_summary parses from the raw output are
\* its lines, in order, trimmed, without emphasis markers and without leading
\* enumeration or bullet prefixes, lines shorter than 4 characters discarded:
\* no returned recommendation begins with one of the prefixes and none is
\* shorter than 4 characters.
C12_ParsedRecommendationsClean ==
    RecommendationsParsed =>
        \A i \in 1..Len(outcome.value.recommendations) :
            /\ \A prefix \in EnumerationPrefixes :
                 ~BeginsWith(outcome.value.recommendations[i], prefix)
            /\ Len(outcome.value.recommendations[i]) >= 4

(***************************************************************************)
(* Properties of the exception path of get_response.                       *)
(***************************************************************************)
\* C13: when get_response ends on the exception path its text is the
\* greeting if and only if the history is empty, that is no earlier call has
\* completed, and the symptoms question otherwise; the failing call leaves
\* the history unchanged, so consecutive failures of a fresh client each
\* return the greeting.
C13_ExceptionFallback ==
    [][ last_op'.op = "get_response" /\ outcome'.kind = "return"
        /\ "error" \in DOMAIN outcome'.value =>
          /\ conversation_history' = conversation_history
          /\ completed' = completed
          /\ (Len(conversation_history) = 0) <=> (Len(completed) = 0)
          /\ outcome'.value.text =
               IF Len(completed) = 0
               THEN "Hello! I'm here to help. What brings you in today?"
               ELSE "I see. Could you tell me more about your symptoms?"
      ]_vars

\* A fresh client failed again: the session exists from an earlier call that
\* failed on send_message, nothing is recorded, and the text is the greeting.
C13_Witness ==
    /\ IsGetResponse /\ OnExceptionPath /\ SendRaised
    /\ last_op.start = "unused"
    /\ conversation_history = << >>
    /\ outcome.value.text = "Hello! I'm here to help. What brings you in today?"

====
